---- MODULE Spec2Model ----
(***************************************************************************)
(* Model of src/utils/retry.ts: retry (retry with exponential backoff) and *)
(* isRetryableError (classification of a failure by its message).          *)
(*                                                                         *)
(* A JavaScript string is a sequence of one-character strings, so that     *)
(* toLowerCase, includes and String() are computed, not assumed.           *)
(* A JavaScript value is a record [kind, id, msg]: kind is its type, id    *)
(* the identity of an Error object (0 for a primitive), msg the message of *)
(* an Error or the content of a string.                                    *)
(*                                                                         *)
(* Model of services/logger.ts: the class Logger, its configuration, its   *)
(* buffer of entries and what a call writes to the console and sends to    *)
(* the remote endpoint.                                                    *)
(*                                                                         *)
(* Model of middleware/auth.ts and middleware/validation.ts: the Express   *)
(* middlewares made by rateLimit, validateRequest and authorize, each      *)
(* invocation with the request it got, the responses it sent, its calls of *)
(* next and what it threw.                                                 *)
(***************************************************************************)
EXTENDS Integers, Sequences, FiniteSets, TLC

VARIABLES
    options,      \* the caller's Partial<RetryOptions>: a function on the fields supplied
    plan,         \* fn: the settlement of its i-th invocation
    opts,         \* { ...DEFAULT_OPTIONS, ...options }
    pc,           \* where the call of retry is: idle, awaitFn, sleeping, done
    attempt,      \* the loop variable
    lastError,    \* the local lastError
    nextId,       \* identity of the next Error object retry constructs
    fnLog,        \* settlements of the invocations of fn made so far
    onRetryLog,   \* calls of opts.onRetry made so far
    delays,       \* arguments of the calls of sleep made so far
    outcome,      \* how the promise returned by retry settled
    events,       \* what the call of retry did so far, in order: <<step, attempt>>
    active,       \* which call of retry the variables above belong to: 1 or 2
    parked,       \* the other call of retry, suspended: its variables, as a record
    input,        \* argument of isRetryableError
    result,       \* what isRetryableError returned: <<>> before the call, <<r>> after
    exists,       \* a Logger was constructed: its constructor returned
    config,       \* Logger.config: a function on the fields that are set
    buffer,       \* Logger.buffer
    accepted,     \* entries pushed on the buffer since it was last emptied
    pending,      \* calls of fetch made by sendToRemote that have not settled
    lastCall,     \* the last call on the Logger: its arguments and what it did
    configBefore, \* Logger.config when the last call began
    bufferBefore, \* Logger.buffer when the last call began
    limiters,     \* the arguments of the calls of rateLimit: <<>> is a call without argument
    requestCounts,\* the Map requestCounts: a function on the keys that are set
    passed,       \* passed[l][ip]: requests of ip the limiter l passed on so far
    rejected,     \* rejected[l][ip]: the limiter l answered 429 to a request of ip
    schema,       \* Object.entries of the argument of validateRequest
    roles,        \* the arguments of authorize
    handler,      \* the middleware invoked last, and the state it found
    req,          \* the request when that invocation ended
    res,          \* the responses that invocation sent
    nextCalls,    \* the calls of next() that invocation made
    thrown        \* what that invocation threw: <<>> or <<error>>

retryVars == <<options, plan, opts, pc, attempt, lastError, nextId, fnLog,
               onRetryLog, delays, outcome, events>>

classifierVars == <<input, result>>

twoCallVars == <<active, parked>>

loggerVars == <<exists, config, buffer, accepted, pending, lastCall,
                configBefore, bufferBefore>>

middlewareVars == <<limiters, requestCounts, passed, rejected, schema, roles,
                    handler, req, res, nextCalls, thrown>>

vars == <<retryVars, twoCallVars, classifierVars, loggerVars, middlewareVars>>

\* no middleware was invoked yet
NotInvoked ==
    /\ handler = <<>>
    /\ req = <<>>
    /\ res = <<>>
    /\ nextCalls = 0
    /\ thrown = <<>>

\* a program that makes no middleware
NoMiddleware ==
    /\ limiters = <<>>
    /\ requestCounts = <<>>
    /\ passed = <<>>
    /\ rejected = <<>>
    /\ schema = <<>>
    /\ roles = <<>>
    /\ NotInvoked

\* a program that constructs no Logger
NoLogger ==
    /\ exists = FALSE
    /\ config = <<>>
    /\ buffer = <<>>
    /\ accepted = 0
    /\ pending = 0
    /\ lastCall = <<>>
    /\ configBefore = <<>>
    /\ bufferBefore = <<>>

-----------------------------------------------------------------------------
(* Strings *)

S_fail1 == <<"f", "a", "i", "l", " ", "1">>
S_fail2 == <<"f", "a", "i", "l", " ", "2">>
S_stringError == <<"s", "t", "r", "i", "n", "g", " ", "e", "r", "r", "o", "r">>
S_success == <<"s", "u", "c", "c", "e", "s", "s">>
S_null == <<"n", "u", "l", "l">>
S_undefined == <<"u", "n", "d", "e", "f", "i", "n", "e", "d">>
S_NoAttemptsMade == <<"N", "o", " ", "a", "t", "t", "e", "m", "p", "t", "s", " ", "m", "a", "d", "e">>
S_callbackFailed == <<"c", "a", "l", "l", "b", "a", "c", "k", " ", "f", "a", "i", "l", "e", "d">>
S_ErrorColon == <<"E", "r", "r", "o", "r", ":", " ">>
S_ECONNRESET == <<"E", "C", "O", "N", "N", "R", "E", "S", "E", "T">>
S_ETIMEDOUT == <<"E", "T", "I", "M", "E", "D", "O", "U", "T">>
S_ENOTFOUND == <<"E", "N", "O", "T", "F", "O", "U", "N", "D">>
S_rateLimit == <<"r", "a", "t", "e", " ", "l", "i", "m", "i", "t">>
S_timeout == <<"t", "i", "m", "e", "o", "u", "t">>
S_network == <<"n", "e", "t", "w", "o", "r", "k">>

UpperCase == <<"A", "B", "C", "D", "E", "F", "G", "H", "I", "J", "K", "L", "M",
               "N", "O", "P", "Q", "R", "S", "T", "U", "V", "W", "X", "Y", "Z">>
LowerCase == <<"a", "b", "c", "d", "e", "f", "g", "h", "i", "j", "k", "l", "m",
               "n", "o", "p", "q", "r", "s", "t", "u", "v", "w", "x", "y", "z">>

\* String.prototype.toLowerCase, on the ASCII letters
toLowerCase(s) ==
    [i \in 1..Len(s) |->
        IF \E k \in 1..26 : UpperCase[k] = s[i]
        THEN LowerCase[CHOOSE k \in 1..26 : UpperCase[k] = s[i]]
        ELSE s[i]]

\* String.prototype.includes: sub occurs in s at some offset
includes(s, sub) ==
    \E off \in 0..(Len(s) - Len(sub)) : SubSeq(s, off + 1, off + Len(sub)) = sub

-----------------------------------------------------------------------------
(* Values *)

ErrorObj(id, msg) == [kind |-> "Error", id |-> id, msg |-> msg]
StrVal(s) == [kind |-> "string", id |-> 0, msg |-> s]
NullVal == [kind |-> "null", id |-> 0, msg |-> <<>>]
UndefinedVal == [kind |-> "undefined", id |-> 0, msg |-> <<>>]

\* error instanceof Error
instanceofError(v) == v.kind = "Error"

\* String(error), for the values a model's fn throws
String(v) ==
    CASE v.kind = "string" -> v.msg
      [] v.kind = "null" -> S_null
      [] v.kind = "undefined" -> S_undefined
      [] v.kind = "Error" -> S_ErrorColon \o v.msg

\* new Error(message): a new object, with the identity id
NewError(id, message) == ErrorObj(id, message)

-----------------------------------------------------------------------------
(* isRetryableError *)

retryableCodes == <<S_ECONNRESET, S_ETIMEDOUT, S_ENOTFOUND>>

\* the same without toLowerCase() on the message
isRetryableError_caseSensitive(error) ==
    IF ~instanceofError(error)
    THEN FALSE
    ELSE LET message == error.msg
         IN  \/ \E c \in 1..Len(retryableCodes) :
                    includes(message, toLowerCase(retryableCodes[c]))
             \/ includes(message, S_rateLimit)
             \/ includes(message, S_timeout)
             \/ includes(message, S_network)

isRetryableError(error) ==
    IF ~instanceofError(error)
    THEN FALSE
    ELSE LET message == toLowerCase(error.msg)
         IN  \/ \E c \in 1..Len(retryableCodes) :
                    includes(message, toLowerCase(retryableCodes[c]))
             \/ includes(message, S_rateLimit)
             \/ includes(message, S_timeout)
             \/ includes(message, S_network)

-----------------------------------------------------------------------------
(* Bounds and inputs *)

MaxAttemptsBound == 3

\* The Error objects the caller's code makes have the identities 1, 2 and 3;
\* those retry constructs are numbered from 10.

\* what an invocation of fn can settle to
Resolved(v) == [ok |-> TRUE, val |-> v]
Rejected(v) == [ok |-> FALSE, val |-> v]

Thrown == { ErrorObj(1, S_fail1), ErrorObj(2, S_fail2),
            StrVal(S_stringError), NullVal }

FnSettlements == { Resolved(StrVal(S_success)) } \cup { Rejected(e) : e \in Thrown }

\* what a call of onRetry can do: return, or throw
CallbackBehaviours ==
    { Resolved(UndefinedVal),
      Rejected(ErrorObj(3, S_callbackFailed)),
      Rejected(StrVal(S_callbackFailed)) }

NumericFields == {"maxAttempts", "delayMs", "backoffMultiplier", "maxDelayMs"}
Fields == NumericFields \cup {"onRetry"}

\* the values a caller supplies for a field; an onRetry is a function handle
FieldValues(f) ==
    CASE f = "maxAttempts" -> (-1)..MaxAttemptsBound
      [] f = "delayMs" -> {10}
      [] f = "backoffMultiplier" -> {10}
      [] f = "maxDelayMs" -> {50}
      [] f = "onRetry" -> {1}

AllFieldValues == UNION { FieldValues(f) : f \in Fields }

\* Partial<RetryOptions>
PartialOptions ==
    UNION { { o \in [D -> AllFieldValues] : \A f \in D : o[f] \in FieldValues(f) } :
            D \in SUBSET Fields }

-----------------------------------------------------------------------------
(* retry *)

DEFAULT_OPTIONS ==
    [maxAttempts |-> 3, delayMs |-> 1000, backoffMultiplier |-> 2, maxDelayMs |-> 30000]

\* the spread with the operands exchanged: { ...b, ...a }
Spread_defaultsLast(a, b) ==
    [f \in (DOMAIN a) \cup (DOMAIN b) |-> IF f \in DOMAIN a THEN a[f] ELSE b[f]]

\* { ...a, ...b }: the fields of both, b's value where b has the field
Spread(a, b) ==
    [f \in (DOMAIN a) \cup (DOMAIN b) |-> IF f \in DOMAIN b THEN b[f] ELSE a[f]]

RECURSIVE pow(_, _)
\* Math.pow, for a natural exponent
pow(b, e) == IF e = 0 THEN 1 ELSE b * pow(b, e - 1)

\* Math.min
min(a, b) == IF a <= b THEN a ELSE b

\* the delay with the exponent attempt instead of attempt - 1
BackoffDelay_exponentAttempt(o, att) ==
    min(o.delayMs * pow(o.backoffMultiplier, att), o.maxDelayMs)

\* the delay computed after the failed attempt att
BackoffDelay(o, att) ==
    min(o.delayMs * pow(o.backoffMultiplier, att - 1), o.maxDelayMs)

\* error instanceof Error ? error : new Error(String(error))
Normalise(error, id) ==
    IF instanceofError(error) THEN error ELSE NewError(id, String(error))

Pending == [kind |-> "pending", val |-> UndefinedVal]
Returned(v) == [kind |-> "return", val |-> v]
Threw(v) == [kind |-> "reject", val |-> v]

\* the options have an onRetry: opts.onRetry?.( ... ) calls it
HasOnRetry(o) == "onRetry" \in DOMAIN o

\* giving up also when the failure of the attempt is not classified retryable
IsFinalAttempt_orNotRetryable(o, att) ==
    \/ att = o.maxAttempts
    \/ ~isRetryableError(Normalise(plan[att].val, nextId))

\* the final attempt recognised one attempt late
IsFinalAttempt_late(o, att) == att > o.maxAttempts

\* attempt === opts.maxAttempts
IsFinalAttempt(o, att) == att = o.maxAttempts

\* the loop with the condition attempt < opts.maxAttempts
LoopHead_strict(o, att, le, before) ==
    IF att < o.maxAttempts
    THEN /\ pc' = "awaitFn"
         /\ outcome' = outcome
         /\ events' = Append(before, <<"invoke", att>>)
    ELSE /\ pc' = "done"
         /\ outcome' = Threw(le)
         /\ events' = before

\* the for statement's condition with attempt = att: the body invokes fn and
\* suspends at `await fn()`; when the condition fails, the statement after the
\* loop throws lastError
LoopHead(o, att, le, before) ==
    IF att <= o.maxAttempts
    THEN /\ pc' = "awaitFn"
         /\ outcome' = outcome
         /\ events' = Append(before, <<"invoke", att>>)
    ELSE /\ pc' = "done"
         /\ outcome' = Threw(le)
         /\ events' = before

\* the catch block with sleep called before onRetry
RetryEvents_sleepFirst(o, att, cb) ==
    << <<"sleep", att>> >> \o (IF HasOnRetry(o) THEN << <<"onRetry", att>> >> ELSE <<>>)

\* the steps of the catch block after the check of the final attempt, for the
\* failed attempt att: the call of onRetry when there is one, and then, unless
\* that call threw, the call of sleep
RetryEvents(o, att, cb) ==
    (IF HasOnRetry(o) THEN << <<"onRetry", att>> >> ELSE <<>>)
        \o (IF HasOnRetry(o) /\ ~cb.ok THEN <<>> ELSE << <<"sleep", att>> >>)

\* retry(fn, options) up to its first suspension
Call ==
    /\ pc = "idle"
    /\ opts' = Spread(DEFAULT_OPTIONS, options)
    /\ lastError' = NewError(nextId, S_NoAttemptsMade)
    /\ nextId' = nextId + 1
    /\ attempt' = 1
    /\ LoopHead(opts', 1, lastError', events)
    /\ UNCHANGED <<options, plan, fnLog, onRetryLog, delays>>
    /\ UNCHANGED <<twoCallVars, classifierVars, loggerVars, middlewareVars>>

\* `await fn()` resumes with a value: return it
FnResolves ==
    /\ pc = "awaitFn"
    /\ plan[attempt].ok
    /\ fnLog' = Append(fnLog, plan[attempt])
    /\ outcome' = Returned(plan[attempt].val)
    /\ events' = Append(events, <<"resolve", attempt>>)
    /\ pc' = "done"
    /\ UNCHANGED <<options, plan, opts, attempt, lastError, nextId, onRetryLog, delays>>
    /\ UNCHANGED <<twoCallVars, classifierVars, loggerVars, middlewareVars>>

\* `await fn()` throws: the catch block, to `throw lastError`, to a throw of
\* onRetry, or to the suspension at `await sleep(delay)`
FnRejects(cb) ==
    /\ pc = "awaitFn"
    /\ ~plan[attempt].ok
    /\ fnLog' = Append(fnLog, plan[attempt])
    /\ lastError' = Normalise(plan[attempt].val, nextId)
    /\ nextId' = IF instanceofError(plan[attempt].val) THEN nextId ELSE nextId + 1
    /\ IF IsFinalAttempt(opts, attempt)
       THEN /\ outcome' = Threw(lastError')
            /\ pc' = "done"
            /\ events' = Append(events, <<"reject", attempt>>)
            /\ UNCHANGED <<onRetryLog, delays>>
       ELSE /\ events' = Append(events, <<"reject", attempt>>) \o RetryEvents(opts, attempt, cb)
            /\ onRetryLog' =
                  IF HasOnRetry(opts)
                  THEN Append(onRetryLog,
                              [error |-> lastError', attempt |-> attempt, ok |-> cb.ok])
                  ELSE onRetryLog
            /\ IF HasOnRetry(opts) /\ ~cb.ok
               THEN /\ outcome' = Threw(cb.val)
                    /\ pc' = "done"
                    /\ UNCHANGED delays
               ELSE /\ delays' = Append(delays, BackoffDelay(opts, attempt))
                    /\ pc' = "sleeping"
                    /\ UNCHANGED outcome
    /\ UNCHANGED <<options, plan, opts, attempt>>
    /\ UNCHANGED <<twoCallVars, classifierVars, loggerVars, middlewareVars>>

\* `await sleep(delay)` resumes: attempt++ and the loop's condition
SleepResolves ==
    /\ pc = "sleeping"
    /\ attempt' = attempt + 1
    /\ LoopHead(opts, attempt', lastError, Append(events, <<"wake", attempt>>))
    /\ UNCHANGED <<options, plan, opts, lastError, nextId, fnLog, onRetryLog, delays>>
    /\ UNCHANGED <<twoCallVars, classifierVars, loggerVars, middlewareVars>>

Init ==
    /\ options \in PartialOptions
    /\ plan \in [1..MaxAttemptsBound -> FnSettlements]
    /\ opts = DEFAULT_OPTIONS
    /\ pc = "idle"
    /\ attempt = 0
    /\ lastError = UndefinedVal
    /\ nextId = 10
    /\ fnLog = <<>>
    /\ onRetryLog = <<>>
    /\ delays = <<>>
    /\ outcome = Pending
    /\ events = <<>>
    /\ active = 1
    /\ parked = <<>>
    /\ input = UndefinedVal
    /\ result = <<>>
    /\ NoLogger
    /\ NoMiddleware

Next ==
    \/ Call
    \/ FnResolves
    \/ \E cb \in CallbackBehaviours : FnRejects(cb)
    \/ SleepResolves

Spec == Init /\ [][Next]_vars

\* every invocation of fn settles and every timer fires: a suspended call of
\* retry is resumed
FairSpec == Spec /\ WF_vars(Next)

-----------------------------------------------------------------------------
(* Two calls of retry in one program *)

\* the variables of the call of retry that is running: its parameters and its
\* locals opts, lastError and attempt, with what it did so far
Context ==
    [options |-> options, plan |-> plan, opts |-> opts, pc |-> pc,
     attempt |-> attempt, lastError |-> lastError, nextId |-> nextId,
     fnLog |-> fnLog, onRetryLog |-> onRetryLog, delays |-> delays,
     outcome |-> outcome, events |-> events]

\* a call of retry not yet made, with the parameters o and p; the Errors it
\* constructs are numbered from id
IdleContext(o, p, id) ==
    [options |-> o, plan |-> p, opts |-> DEFAULT_OPTIONS, pc |-> "idle",
     attempt |-> 0, lastError |-> UndefinedVal, nextId |-> id,
     fnLog |-> <<>>, onRetryLog |-> <<>>, delays |-> <<>>,
     outcome |-> Pending, events |-> <<>>]

\* a switch in which the loop variable is not the call's own: the call that
\* resumes finds the attempt of the call that ran last
Switch_sharedAttempt ==
    /\ parked # <<>>
    /\ parked' = Context
    /\ active' = 3 - active
    /\ options' = parked.options
    /\ plan' = parked.plan
    /\ opts' = parked.opts
    /\ pc' = parked.pc
    /\ attempt' = attempt
    /\ lastError' = parked.lastError
    /\ nextId' = parked.nextId
    /\ fnLog' = parked.fnLog
    /\ onRetryLog' = parked.onRetryLog
    /\ delays' = parked.delays
    /\ outcome' = parked.outcome
    /\ events' = parked.events
    /\ UNCHANGED <<classifierVars, loggerVars, middlewareVars>>

\* the event loop turns to the other call: the running call stays suspended
\* where it is (before its start, at an await, or settled) with its own
\* parameters and locals, and the other call's are the current ones
Switch ==
    /\ parked # <<>>
    /\ parked' = Context
    /\ active' = 3 - active
    /\ options' = parked.options
    /\ plan' = parked.plan
    /\ opts' = parked.opts
    /\ pc' = parked.pc
    /\ attempt' = parked.attempt
    /\ lastError' = parked.lastError
    /\ nextId' = parked.nextId
    /\ fnLog' = parked.fnLog
    /\ onRetryLog' = parked.onRetryLog
    /\ delays' = parked.delays
    /\ outcome' = parked.outcome
    /\ events' = parked.events
    /\ UNCHANGED <<classifierVars, loggerVars, middlewareVars>>

\* the options of the two calls: maxAttempts 2 or the default, with or
\* without an onRetry
TwoCallOptions ==
    { o \in PartialOptions :
        /\ DOMAIN o \subseteq {"maxAttempts", "onRetry"}
        /\ "maxAttempts" \in DOMAIN o => o.maxAttempts = 2 }

\* an fn that throws e on the invocations before the k-th and resolves from
\* the k-th on
PlanOf(e, k) ==
    [i \in 1..MaxAttemptsBound |->
        IF i < k THEN Rejected(e) ELSE Resolved(StrVal(S_success))]

\* failures of fn: one that isRetryableError classifies retryable, one that
\* it does not
TwoCallThrown == { ErrorObj(1, S_ETIMEDOUT), ErrorObj(2, S_fail1) }

TwoCallPlans ==
    { PlanOf(e, k) : e \in TwoCallThrown, k \in 1..(MaxAttemptsBound + 1) }

InitTwoCalls ==
    /\ options \in TwoCallOptions
    /\ plan \in TwoCallPlans
    /\ opts = DEFAULT_OPTIONS
    /\ pc = "idle"
    /\ attempt = 0
    /\ lastError = UndefinedVal
    /\ nextId = 10
    /\ fnLog = <<>>
    /\ onRetryLog = <<>>
    /\ delays = <<>>
    /\ outcome = Pending
    /\ events = <<>>
    /\ active = 1
    /\ parked \in { IdleContext(o, p, 20) : o \in TwoCallOptions, p \in TwoCallPlans }
    /\ input = UndefinedVal
    /\ result = <<>>
    /\ NoLogger
    /\ NoMiddleware

NextTwoCalls ==
    \/ Next
    \/ Switch

SpecTwoCalls == InitTwoCalls /\ [][NextTwoCalls]_vars

-----------------------------------------------------------------------------
(* Properties of retry *)

\* the failure retry holds after fn threw raw: raw itself when raw is an Error,
\* otherwise an Error made by retry whose message is the string form of raw
Captured(x, raw) ==
    IF raw.kind = "Error"
    THEN x = raw
    ELSE x.kind = "Error" /\ x.msg = String(raw) /\ x.id >= 10

\* the promise returned by retry has settled
Done == pc = "done"

\* a call of onRetry threw
CallbackThrew == \E i \in 1..Len(onRetryLog) : ~onRetryLog[i].ok

\* fn fails on every invocation up to the n-th
FailsThrough(n) == \A i \in 1..n : ~plan[i].ok

\* fn fails on the invocations 1..k-1 and succeeds on the k-th
SucceedsFirstAt(k) == FailsThrough(k - 1) /\ plan[k].ok

\* C1: with maxAttempts = N >= 1 and an fn that fails on every invocation,
\* retry invokes fn exactly N times and rejects with the failure of the N-th
\* invocation.
C1_AlwaysFailing ==
    (Done /\ opts.maxAttempts >= 1 /\ FailsThrough(opts.maxAttempts)) =>
        /\ Len(fnLog) = opts.maxAttempts
        /\ outcome.kind = "reject"
        /\ Captured(outcome.val, plan[opts.maxAttempts].val)

\* C1 in the runs in which no call of onRetry throws
C1_WhenCallbackReturns == ~CallbackThrew => C1_AlwaysFailing

\* C2: with an fn that fails on the invocations 1..k-1 and succeeds on the
\* k-th (1 <= k <= N), retry invokes fn exactly k times, returns the value of
\* the k-th invocation, and sleeps k-1 times: not after the success.
C2_SucceedsAtK ==
    \A k \in 1..opts.maxAttempts :
        (Done /\ SucceedsFirstAt(k)) =>
            /\ Len(fnLog) = k
            /\ outcome = Returned(plan[k].val)
            /\ Len(delays) = k - 1

\* C2 in the runs in which no call of onRetry throws
C2_WhenCallbackReturns == ~CallbackThrew => C2_SucceedsAtK

\* C3: with an onRetry and maxAttempts >= 1, a finished call has invoked
\* onRetry exactly (invocations of fn - 1) times: the i-th call is for the
\* i-th attempt, which failed and is not the attempt numbered maxAttempts,
\* and gets that attempt's failure and the number i.
C3_OnRetryCalls ==
    (Done /\ HasOnRetry(opts) /\ opts.maxAttempts >= 1) =>
        /\ Len(onRetryLog) = Len(fnLog) - 1
        /\ \A i \in 1..Len(onRetryLog) :
              /\ onRetryLog[i].attempt = i
              /\ i # opts.maxAttempts
              /\ ~fnLog[i].ok
              /\ Captured(onRetryLog[i].error, fnLog[i].val)

\* C3 in the runs in which no call of onRetry throws
C3_WhenCallbackReturns == ~CallbackThrew => C3_OnRetryCalls


\* the number of invocations of fn made so far, the one in flight included
Invocations == Len(fnLog) + (IF pc = "awaitFn" THEN 1 ELSE 0)

\* C4: the delay slept before attempt i > 1 is
\* min(delayMs * backoffMultiplier^(i-2), maxDelayMs); every attempt after the
\* first is preceded by such a delay; the first delay is delayMs when
\* delayMs <= maxDelayMs; no delay exceeds maxDelayMs.
C4_Delays ==
    /\ Invocations >= 1 => Len(delays) >= Invocations - 1
    /\ \A i \in 2..(Len(delays) + 1) :
          /\ delays[i - 1] =
                min(opts.delayMs * pow(opts.backoffMultiplier, i - 2), opts.maxDelayMs)
          /\ delays[i - 1] <= opts.maxDelayMs
    /\ (Len(delays) >= 1 /\ opts.delayMs <= opts.maxDelayMs) => delays[1] = opts.delayMs

\* a third attempt made after the delays 10 and 50: the second delay is the
\* cap, below 10 * 10
C4_Witness ==
    /\ Invocations = 3
    /\ delays = <<10, 50>>
    /\ opts.delayMs * opts.backoffMultiplier > opts.maxDelayMs

\* a delay capped by a maxDelayMs that is smaller than delayMs
C4_WitnessCapBelowInitial ==
    /\ Len(delays) >= 1
    /\ opts.maxDelayMs < opts.delayMs
    /\ delays[1] = opts.maxDelayMs

\* the outcome is the operation's: the value of the last invocation when it
\* succeeded, otherwise the failure of the last invocation
OutcomeIsOperations ==
    /\ Len(fnLog) >= 1
    /\ LET last == fnLog[Len(fnLog)]
       IN  IF last.ok
           THEN outcome = Returned(last.val)
           ELSE outcome.kind = "reject" /\ Captured(outcome.val, last.val)

\* C5: when a call of onRetry throws, retry still sleeps and makes the next
\* attempt, and the outcome of the call is the operation's, never the
\* callback's failure.
C5_CallbackFailureDoesNotAbort ==
    \A i \in 1..Len(onRetryLog) :
        ~onRetryLog[i].ok =>
            /\ Len(delays) >= i
            /\ Invocations >= i + 1
            /\ Done => OutcomeIsOperations

\* C6: with maxAttempts >= 1 a finished call has returned the value of a
\* successful invocation or rejected with the failure of the last invocation
\* made.
C6_OutcomeIsValueOrLastFailure ==
    (Done /\ opts.maxAttempts >= 1) => OutcomeIsOperations

\* C6 in the runs in which no call of onRetry throws
C6_WhenCallbackReturns == ~CallbackThrew => C6_OutcomeIsValueOrLastFailure

\* the termination part of C6: every call of retry finishes, when every
\* invocation of fn settles
C6_Terminates == <>Done

\* C7: with maxAttempts = 1 retry invokes fn once, never sleeps and never
\* calls onRetry; the call finishes with the outcome of that invocation.
C7_SingleAttempt ==
    (pc # "idle" /\ opts.maxAttempts = 1) =>
        /\ Invocations = 1
        /\ pc # "sleeping"
        /\ delays = <<>>
        /\ onRetryLog = <<>>
        /\ Done =>
              /\ fnLog = <<plan[1]>>
              /\ IF plan[1].ok
                 THEN outcome = Returned(plan[1].val)
                 ELSE outcome.kind = "reject" /\ Captured(outcome.val, plan[1].val)

\* a single failed attempt, with an onRetry supplied
C7_Witness ==
    /\ Done
    /\ opts.maxAttempts = 1
    /\ HasOnRetry(opts)
    /\ Len(fnLog) = 1
    /\ ~fnLog[1].ok
    /\ outcome.kind = "reject"

\* C8: every failure passed to onRetry and every failure retry rejects with
\* is an Error; it is the thrown Error itself when fn threw an Error, and
\* otherwise an Error whose message is the string form of the thrown value.
C8_FailuresAreErrors ==
    /\ \A i \in 1..Len(onRetryLog) : Captured(onRetryLog[i].error, fnLog[i].val)
    /\ (Done /\ outcome.kind = "reject") => outcome.val.kind = "Error"
    /\ (Done /\ outcome.kind = "reject" /\ Len(fnLog) >= 1) =>
            Captured(outcome.val, fnLog[Len(fnLog)].val)

\* C8 in the runs in which no call of onRetry throws
C8_WhenCallbackReturns == ~CallbackThrew => C8_FailuresAreErrors

\* C9: the effective options take, field by field, the caller's value where
\* the caller supplied the field and otherwise the default (maxAttempts 3,
\* delayMs 1000, backoffMultiplier 2, maxDelayMs 30000, no onRetry); a call
\* with no options makes at most 3 attempts.
C9_FieldByFieldDefaults ==
    pc # "idle" =>
        /\ \A f \in DOMAIN options : f \in DOMAIN opts /\ opts[f] = options[f]
        /\ "maxAttempts" \notin DOMAIN options => opts.maxAttempts = 3
        /\ "delayMs" \notin DOMAIN options => opts.delayMs = 1000
        /\ "backoffMultiplier" \notin DOMAIN options => opts.backoffMultiplier = 2
        /\ "maxDelayMs" \notin DOMAIN options => opts.maxDelayMs = 30000
        /\ "onRetry" \notin DOMAIN options => "onRetry" \notin DOMAIN opts
        /\ DOMAIN options = {} => Invocations <= 3

\* a finished call that supplied delayMs and maxAttempts only, and slept
\* delayMs scaled by the default multiplier
C9_Witness ==
    /\ Done
    /\ DOMAIN options = {"delayMs", "maxAttempts"}
    /\ options.maxAttempts = 3
    /\ delays = <<10, 20>>

\* the number of steps of the kind step in the first n events
RECURSIVE CountEvents(_, _)
CountEvents(step, n) ==
    IF n = 0 THEN 0
    ELSE CountEvents(step, n - 1) + (IF events[n][1] = step THEN 1 ELSE 0)

\* the invocations of fn in flight after the first n events
InFlight(n) ==
    CountEvents("invoke", n) - CountEvents("resolve", n) - CountEvents("reject", n)

\* the events from position from on are exactly the sequence expected
EventsAt(from, expected) ==
    /\ from >= 1
    /\ from + Len(expected) - 1 <= Len(events)
    /\ \A j \in 1..Len(expected) : events[from + j - 1] = expected[j]

\* what lies between the start of attempt i and the start of attempt i + 1
RetryCycle(i) ==
    << <<"invoke", i>>, <<"reject", i>> >>
        \o (IF HasOnRetry(opts) THEN << <<"onRetry", i>> >> ELSE <<>>)
        \o << <<"sleep", i>>, <<"wake", i>>, <<"invoke", i + 1>> >>

\* C12: at most one invocation of fn is in flight at any time, and attempt
\* i+1 starts only after attempt i failed, then onRetry was called for
\* attempt i (when there is an onRetry), then the delay for attempt i was
\* started and has elapsed.
C12_OneInFlightInOrder ==
    /\ \A n \in 0..Len(events) : InFlight(n) \in {0, 1}
    /\ \A p \in 1..Len(events) :
          events[p][1] = "invoke" =>
              IF events[p][2] = 1
              THEN p = 1
              ELSE LET cycle == RetryCycle(events[p][2] - 1)
                   IN  EventsAt(p - Len(cycle) + 1, cycle)

\* a third attempt in flight, in a call with an onRetry
C12_Witness ==
    /\ HasOnRetry(opts)
    /\ pc = "awaitFn"
    /\ Len(events) >= 1
    /\ events[Len(events)] = <<"invoke", 3>>

\* C18 as stated: in every finished run the number of delays is the number
\* of invocations of fn minus 1.
C18_DelaysAreInvocationsMinusOne ==
    Done => Len(delays) = Len(fnLog) - 1

\* C18 amended: retry never sleeps after the failure of the attempt numbered
\* maxAttempts, and in every finished run with maxAttempts >= 1 the number of
\* delays is the number of invocations of fn minus 1; with maxAttempts <= 0
\* there is neither an invocation nor a delay.
C18_NoSleepAfterFinalFailure ==
    /\ \A p \in 1..Len(events) :
          events[p] = <<"reject", opts.maxAttempts>> => p = Len(events) /\ Done
    /\ (pc # "idle" /\ opts.maxAttempts >= 1) =>
          Len(delays) = Invocations - (IF pc = "sleeping" THEN 0 ELSE 1)
    /\ (Done /\ opts.maxAttempts >= 1) => Len(delays) = Len(fnLog) - 1
    /\ (Done /\ opts.maxAttempts <= 0) => Len(delays) = 0 /\ Len(fnLog) = 0

\* every attempt of a call with maxAttempts = 3 failed: two delays
C18_Witness ==
    /\ Done
    /\ opts.maxAttempts = 3
    /\ Len(fnLog) = 3
    /\ ~fnLog[3].ok
    /\ Len(delays) = 2

\* C20: with maxAttempts <= 0 fn and onRetry are never invoked, there is no
\* delay, and the call rejects with the Error 'No attempts made'; with
\* maxAttempts >= 1 that Error is never the outcome.
C20_NoAttemptsMade ==
    /\ (pc # "idle" /\ opts.maxAttempts <= 0) =>
          /\ Done
          /\ events = <<>>
          /\ fnLog = <<>>
          /\ onRetryLog = <<>>
          /\ delays = <<>>
          /\ outcome = Threw(ErrorObj(10, S_NoAttemptsMade))
    /\ (Done /\ opts.maxAttempts >= 1) =>
          ~(outcome.kind = "reject" /\ outcome.val.msg = S_NoAttemptsMade)

\* a finished call with a negative maxAttempts and an onRetry
C20_Witness ==
    /\ Done
    /\ opts.maxAttempts = -1
    /\ HasOnRetry(opts)
    /\ outcome.kind = "reject"

-----------------------------------------------------------------------------
(* Properties of two calls of retry *)

\* the call numbered i: the running one, or the suspended one
CallView(i) == IF active = i THEN Context ELSE parked

\* the calls of onRetry of the call c that threw
ThrowingCallbacks(c) == { i \in 1..Len(c.onRetryLog) : ~c.onRetryLog[i].ok }

\* the failed attempts, among the first n of the call c, that are not the
\* attempt numbered maxAttempts
RetriableFailures(c, n) ==
    { i \in 1..n : ~c.plan[i].ok /\ i # c.opts.maxAttempts }

\* The call c is what its own parameters and the behaviour of its own onRetry
\* make it, as in a program that makes no other call: its policy, the
\* settlements it saw, its attempt count, the arguments of its onRetry calls,
\* its delays and its outcome.
AsIfAlone(c) ==
    LET made == Len(c.fnLog)
        n == c.opts.maxAttempts
    IN  c.pc # "idle" =>
        /\ \A f \in DOMAIN c.options : c.opts[f] = c.options[f]
        /\ \A f \in DOMAIN DEFAULT_OPTIONS :
              f \notin DOMAIN c.options => c.opts[f] = DEFAULT_OPTIONS[f]
        /\ \A i \in 1..made : c.fnLog[i] = c.plan[i]
        /\ n >= 1 => c.attempt = made + (IF c.pc = "awaitFn" THEN 1 ELSE 0)
        /\ n >= 1 => made <= n
        /\ \A i \in 1..(made - 1) : i \in RetriableFailures(c, made)
        /\ Len(c.onRetryLog) =
              IF HasOnRetry(c.opts) THEN Cardinality(RetriableFailures(c, made)) ELSE 0
        /\ \A i \in 1..Len(c.onRetryLog) :
              /\ c.onRetryLog[i].attempt = i
              /\ Captured(c.onRetryLog[i].error, c.plan[i].val)
        /\ ThrowingCallbacks(c) \subseteq {made}
        /\ Len(c.delays) =
              Cardinality(RetriableFailures(c, made) \ ThrowingCallbacks(c))
        /\ \A i \in 1..Len(c.delays) :
              c.delays[i] =
                  min(c.opts.delayMs * pow(c.opts.backoffMultiplier, i - 1),
                      c.opts.maxDelayMs)
        /\ c.pc = "sleeping" => made \in RetriableFailures(c, made)
        /\ (c.pc = "done" /\ n >= 1) =>
              /\ made >= 1
              /\ IF c.plan[made].ok
                 THEN c.outcome = Returned(c.plan[made].val)
                 ELSE IF ThrowingCallbacks(c) # {}
                 THEN \E b \in CallbackBehaviours : ~b.ok /\ c.outcome = Threw(b.val)
                 ELSE /\ made = n
                      /\ c.outcome.kind = "reject"
                      /\ Captured(c.outcome.val, c.plan[made].val)
        /\ (c.pc = "done" /\ n <= 0) =>
              /\ made = 0
              /\ c.outcome.kind = "reject"
              /\ c.outcome.val.msg = S_NoAttemptsMade

\* a single call of retry is as AsIfAlone describes it
AloneIsAsIfAlone == AsIfAlone(Context)

\* C13: two calls of retry whose steps interleave in any order share no
\* state: each is, at every moment, what its own parameters make it, as if
\* it ran alone, whatever the other call's policy and outcomes.
C13_CallsAreIndependent == AsIfAlone(CallView(1)) /\ AsIfAlone(CallView(2))

\* the running call awaits its second attempt while the other call, with
\* another maxAttempts and other outcomes of fn, sleeps after its second
C13_Witness ==
    /\ parked # <<>>
    /\ pc = "awaitFn"
    /\ attempt = 2
    /\ parked.pc = "sleeping"
    /\ parked.attempt = 2
    /\ parked.opts.maxAttempts # opts.maxAttempts
    /\ parked.plan # plan

\* the calls a and b have the same options and the same pattern of successes
\* and failures of fn, the failures of a are all classified retryable and
\* those of b are not, and their onRetry calls behaved alike
DifferOnlyInClassification(a, b) ==
    /\ a.options = b.options
    /\ \A i \in 1..MaxAttemptsBound :
          /\ a.plan[i].ok = b.plan[i].ok
          /\ ~a.plan[i].ok =>
                /\ isRetryableError(a.plan[i].val)
                /\ ~isRetryableError(b.plan[i].val)
    /\ \A i \in 1..min(Len(a.onRetryLog), Len(b.onRetryLog)) :
          a.onRetryLog[i].ok = b.onRetryLog[i].ok

\* a failure of the call c that is not classified retryable, at an attempt
\* that is not the final one, is followed by the retry steps
NonRetryableIsRetried(c) ==
    \A p \in 1..Len(c.events) :
        ( /\ c.events[p][1] = "reject"
          /\ c.events[p][2] # c.opts.maxAttempts
          /\ ~isRetryableError(c.plan[c.events[p][2]].val) ) =>
            /\ p < Len(c.events)
            /\ c.events[p + 1] \in { <<"onRetry", c.events[p][2]>>, <<"sleep", c.events[p][2]>> }

-----------------------------------------------------------------------------
(* Calls of isRetryableError *)

S_NetworkTimeout == <<"N", "e", "t", "w", "o", "r", "k", " ", "t", "i", "m", "e", "o", "u", "t">>
S_RateLimitExceeded == <<"R", "a", "t", "e", " ", "l", "i", "m", "i", "t", " ", "e", "x", "c", "e", "e", "d", "e", "d">>
S_InvalidInput == <<"I", "n", "v", "a", "l", "i", "d", " ", "i", "n", "p", "u", "t">>
S_NotFound == <<"N", "o", "t", " ", "f", "o", "u", "n", "d">>
S_TimedOut == <<"T", "i", "m", "e", "d", " ", "o", "u", "t">>
S_RATE_LIMIT == <<"R", "A", "T", "E", " ", "L", "I", "M", "I", "T">>
S_ratelimit == <<"r", "a", "t", "e", "l", "i", "m", "i", "t">>
S_EConnReset == <<"E", "C", "o", "n", "n", "R", "e", "s", "e", "t">>
S_econnrese == <<"e", "c", "o", "n", "n", "r", "e", "s", "e">>
S_NetWork == <<"N", "e", "t", "W", "o", "r", "k">>
S_net_work == <<"n", "e", "t", " ", "w", "o", "r", "k">>
S_TIMEOUT == <<"T", "I", "M", "E", "O", "U", "T">>
S_timeou == <<"t", "i", "m", "e", "o", "u">>
S_EnotFound == <<"E", "n", "o", "t", "F", "o", "u", "n", "d">>
S_ENOTFOUN == <<"E", "N", "O", "T", "F", "O", "U", "N">>
S_prefix == <<"G", "E", "T", " ", "/", "x", ":", " ">>
S_suffix == <<" ", "(", "5", "0", "3", ")">>

\* messages: those of the tests, the codes in other cases, and near misses,
\* alone and inside a longer message
MessageCores ==
    { <<>>, S_ECONNRESET, S_ETIMEDOUT, S_ENOTFOUND, S_NetworkTimeout,
      S_RateLimitExceeded, S_InvalidInput, S_NotFound, S_stringError,
      S_TimedOut, S_RATE_LIMIT, S_ratelimit, S_EConnReset, S_econnrese,
      S_NetWork, S_net_work, S_TIMEOUT, S_timeou, S_EnotFound, S_ENOTFOUN,
      S_rateLimit, S_timeout, S_network, S_fail1 }

Messages ==
    { pre \o core \o post :
        pre \in {<<>>, S_prefix}, core \in MessageCores, post \in {<<>>, S_suffix} }

ClassifierInputs ==
    { ErrorObj(1, m) : m \in Messages } \cup { StrVal(m) : m \in Messages }
        \cup { NullVal, UndefinedVal }

\* a call isRetryableError(input)
Classify ==
    /\ result = <<>>
    /\ result' = <<isRetryableError(input)>>
    /\ UNCHANGED input
    /\ UNCHANGED <<retryVars, twoCallVars, loggerVars, middlewareVars>>

InitClassifier ==
    /\ input \in ClassifierInputs
    /\ result = <<>>
    /\ options = <<>>
    /\ plan = [i \in 1..MaxAttemptsBound |-> Resolved(StrVal(S_success))]
    /\ opts = DEFAULT_OPTIONS
    /\ pc = "idle"
    /\ attempt = 0
    /\ lastError = UndefinedVal
    /\ nextId = 10
    /\ fnLog = <<>>
    /\ onRetryLog = <<>>
    /\ delays = <<>>
    /\ outcome = Pending
    /\ events = <<>>
    /\ active = 1
    /\ parked = <<>>
    /\ NoLogger
    /\ NoMiddleware

NextClassifier == Classify

SpecClassifier == InitClassifier /\ [][NextClassifier]_vars

-----------------------------------------------------------------------------
(* Properties of isRetryableError *)

S_econnreset == <<"e", "c", "o", "n", "n", "r", "e", "s", "e", "t">>
S_etimedout == <<"e", "t", "i", "m", "e", "d", "o", "u", "t">>
S_enotfound == <<"e", "n", "o", "t", "f", "o", "u", "n", "d">>

RetryableTokens ==
    {S_econnreset, S_etimedout, S_enotfound, S_rateLimit, S_timeout, S_network}

\* a and b are the same character, or the two cases of one letter
SameIgnoringCase(a, b) ==
    \/ a = b
    \/ \E k \in 1..26 : {a, b} = {UpperCase[k], LowerCase[k]}

\* token occurs in message at some offset, compared case-insensitively
ContainsIgnoringCase(message, token) ==
    \E off \in 0..(Len(message) - Len(token)) :
        \A j \in 1..Len(token) : SameIgnoringCase(message[off + j], token[j])

\* C10: isRetryableError returns false for every input that is not an Error;
\* for an Error it returns true exactly when the message contains, compared
\* case-insensitively, one of econnreset, etimedout, enotfound, rate limit,
\* timeout, network.
C10_Classification ==
    result # <<>> =>
        result[1] = ( /\ input.kind = "Error"
                      /\ \E t \in RetryableTokens : ContainsIgnoringCase(input.msg, t) )

\* an Error classified retryable by a message that is not in lower case
C10_Witness ==
    /\ result = <<TRUE>>
    /\ input.kind = "Error"
    /\ input.msg = S_prefix \o S_RATE_LIMIT

-----------------------------------------------------------------------------
(* Logger *)

\* enum LogLevel
DEBUG == 0
INFO == 1
WARN == 2
ERROR == 3

LogLevel == {DEBUG, INFO, WARN, ERROR}

\* LogLevel[level]: the name of a level
LevelName(level) ==
    CASE level = DEBUG -> "DEBUG"
      [] level = INFO -> "INFO"
      [] level = WARN -> "WARN"
      [] level = ERROR -> "ERROR"

MAX_BUFFER_SIZE == 100

\* the default of the parameter count of getRecentLogs
DefaultCount == 10

S_app == <<"a", "p", "p">>
S_endpoint ==
    <<"h", "t", "t", "p", "s", ":", "/", "/", "l", "o", "g", "s", ".", "e",
      "x", "a", "m", "p", "l", "e", ".", "c", "o", "m">>
S_remoteEndpointRequired ==
    <<"r", "e", "m", "o", "t", "e", "E", "n", "d", "p", "o", "i", "n", "t",
      " ", "i", "s", " ", "r", "e", "q", "u", "i", "r", "e", "d", " ", "w",
      "h", "e", "n", " ", "e", "n", "a", "b", "l", "e", "R", "e", "m", "o",
      "t", "e", " ", "i", "s", " ", "t", "r", "u", "e">>

\* in the program of the long buffer: entries pushed on the buffer since it
\* was last emptied, at most
MaxAccepted == 102

\* in the program of the long buffer: the entries of a buffer are of any level
\* up to this position; later log calls repeat the level of the last entry
MaxMixed == 1

\* in the program of all configurations: entries pushed on the buffer since
\* it was last emptied, at most
MaxShort == 2

\* calls of fetch not yet settled, at most
MaxPending == 1

ConfigFields == {"minLevel", "enableConsole", "enableRemote", "remoteEndpoint"}

ConfigValues(f) ==
    CASE f = "minLevel" -> LogLevel
      [] f = "enableConsole" -> BOOLEAN
      [] f = "enableRemote" -> BOOLEAN
      [] f = "remoteEndpoint" -> {S_endpoint, <<>>}

\* a field left out, <<>>, or set to a value of its type, <<v>>
Optional(f) == {<<>>} \cup { <<v>> : v \in ConfigValues(f) }

\* the object whose fields are those of ConfigFields that choice sets
ObjectOf(choice) ==
    [f \in { g \in ConfigFields : choice[g] # <<>> } |-> choice[f][1]]

\* Partial<LoggerConfig>: any subset of the fields, each with a value of its type
PartialConfigs ==
    { ObjectOf([f \in ConfigFields |->
                   CASE f = "minLevel" -> m
                     [] f = "enableConsole" -> c
                     [] f = "enableRemote" -> r
                     [] f = "remoteEndpoint" -> e]) :
        m \in Optional("minLevel"), c \in Optional("enableConsole"),
        r \in Optional("enableRemote"), e \in Optional("remoteEndpoint") }

\* the arguments of updateConfig: no field, one field, or enableRemote with
\* the endpoint
UpdateArgs ==
    { c \in PartialConfigs :
        \/ Cardinality(DOMAIN c) <= 1
        \/ DOMAIN c = {"enableRemote", "remoteEndpoint"} }

\* the arguments of getRecentLogs: <<>> is a call without argument
Counts == { <<>>, <<0>>, <<1>>, <<2>>, <<MAX_BUFFER_SIZE + 1>> }

\* the defaults of the constructor
DefaultConfig ==
    [f \in {"minLevel", "enableConsole", "enableRemote", "serviceName"} |->
        CASE f = "minLevel" -> INFO
          [] f = "enableConsole" -> TRUE
          [] f = "enableRemote" -> FALSE
          [] f = "serviceName" -> S_app]

\* !c.remoteEndpoint is false: the field is set and is not the empty string
HasEndpoint(c) == "remoteEndpoint" \in DOMAIN c /\ c.remoteEndpoint # <<>>

Invalid_endpointIgnored(c) == c.enableRemote

\* the condition of the validation: enableRemote && !remoteEndpoint
Invalid(c) == c.enableRemote /\ ~HasEndpoint(c)

\* new Error('remoteEndpoint is required when enableRemote is true')
ConfigError == ErrorObj(30, S_remoteEndpointRequired)

Accepts_above(level, c) == level > c.minLevel

\* log goes on: not (level < this.config.minLevel)
Accepts(level, c) == ~(level < c.minLevel)

Push_dropNewest(buf, entry) ==
    IF Len(buf) + 1 > MAX_BUFFER_SIZE THEN buf ELSE Append(buf, entry)

\* this.buffer.push(entry); if (length > MAX_BUFFER_SIZE) this.buffer.shift()
Push(buf, entry) ==
    LET pushed == Append(buf, entry)
    IN  IF Len(pushed) > MAX_BUFFER_SIZE THEN Tail(pushed) ELSE pushed

\* Math.max
max(a, b) == IF a >= b THEN a ELSE b

\* Array.prototype.slice(start): from index start, counted from the end when
\* start < 0; -0 is 0
Slice(buf, start) ==
    LET from == IF start < 0 THEN max(Len(buf) + start, 0) ELSE min(start, Len(buf))
    IN  SubSeq(buf, from + 1, Len(buf))

\* the parameter count of getRecentLogs, given the argument
CountOf(arg) == IF arg = <<>> THEN DefaultCount ELSE arg[1]

\* what writeToConsole writes for an entry: the console method and the line
ConsoleLine(entry, c) ==
    [method |-> CASE entry.level = DEBUG -> "debug"
                  [] entry.level = INFO -> "info"
                  [] entry.level = WARN -> "warn"
                  [] entry.level = ERROR -> "error",
     levelName |-> LevelName(entry.level),
     serviceName |-> c.serviceName,
     message |-> entry.message]

\* sendToRemote calls fetch for the entry
Fetches(c) == c.enableRemote /\ HasEndpoint(c)

\* a call on the Logger, as lastCall records it
CallRecord(op, arg, threw, returned, console, fetched) ==
    [op |-> op, arg |-> arg, threw |-> threw, returned |-> returned,
     console |-> console, fetched |-> fetched]

\* new Logger(arg): the state when the constructor returned, or threw
Constructed(arg) ==
    LET merged == Spread(DefaultConfig, arg)
    IN  /\ exists = ~Invalid(merged)
        /\ config = merged
        /\ lastCall = CallRecord("constructor", arg,
                                 IF Invalid(merged) THEN <<ConfigError>> ELSE <<>>,
                                 <<>>, <<>>, FALSE)
        /\ buffer = <<>>
        /\ accepted = 0
        /\ pending = 0
        /\ configBefore = <<>>
        /\ bufferBefore = <<>>

\* the private method log(level, message), the message being the number the
\* entry takes among those accepted since the buffer was last emptied
log(level) ==
    /\ exists
    /\ configBefore' = config
    /\ bufferBefore' = buffer
    /\ UNCHANGED <<exists, config>>
    /\ IF ~Accepts(level, config)
       THEN /\ lastCall' = CallRecord("log", level, <<>>, <<>>, <<>>, FALSE)
            /\ UNCHANGED <<buffer, accepted, pending>>
       ELSE LET entry == [level |-> level, message |-> accepted + 1]
            IN  /\ buffer' = Push(buffer, entry)
                /\ accepted' = accepted + 1
                /\ pending' = IF Fetches(config) THEN pending + 1 ELSE pending
                /\ lastCall' =
                     CallRecord("log", level, <<>>, <<>>,
                                IF config.enableConsole
                                THEN <<ConsoleLine(entry, config)>> ELSE <<>>,
                                Fetches(config))
    /\ UNCHANGED <<retryVars, twoCallVars, classifierVars, middlewareVars>>

debug == log(DEBUG)

info == log(INFO)

warn == log(WARN)

error == log(ERROR)

\* the promise of a fetch settles: ok is the response's ok, or FALSE when the
\* fetch rejected; the failure is written to console.error
fetchSettles(ok) ==
    /\ pending > 0
    /\ pending' = pending - 1
    /\ lastCall' = CallRecord("fetchSettled", ok, <<>>, <<>>,
                              IF ok THEN <<>>
                              ELSE <<[method |-> "error", levelName |-> "",
                                      serviceName |-> <<>>, message |-> 0]>>,
                              FALSE)
    /\ configBefore' = config
    /\ bufferBefore' = buffer
    /\ UNCHANGED <<exists, config, buffer, accepted>>
    /\ UNCHANGED <<retryVars, twoCallVars, classifierVars, middlewareVars>>

getRecentLogs(arg) ==
    /\ exists
    /\ lastCall' = CallRecord("getRecentLogs", arg, <<>>,
                              Slice(buffer, 0 - CountOf(arg)), <<>>, FALSE)
    /\ configBefore' = config
    /\ bufferBefore' = buffer
    /\ UNCHANGED <<exists, config, buffer, accepted, pending>>
    /\ UNCHANGED <<retryVars, twoCallVars, classifierVars, middlewareVars>>

clearBuffer ==
    /\ exists
    /\ buffer' = <<>>
    /\ accepted' = 0
    /\ lastCall' = CallRecord("clearBuffer", <<>>, <<>>, <<>>, <<>>, FALSE)
    /\ configBefore' = config
    /\ bufferBefore' = buffer
    /\ UNCHANGED <<exists, config, pending>>
    /\ UNCHANGED <<retryVars, twoCallVars, classifierVars, middlewareVars>>

\* updateConfig(arg): the merged configuration is assigned, then validated
updateConfig(arg) ==
    /\ exists
    /\ config' = Spread(config, arg)
    /\ lastCall' = CallRecord("updateConfig", arg,
                              IF Invalid(config') THEN <<ConfigError>> ELSE <<>>,
                              <<>>, <<>>, FALSE)
    /\ configBefore' = config
    /\ bufferBefore' = buffer
    /\ UNCHANGED <<exists, buffer, accepted, pending>>
    /\ UNCHANGED <<retryVars, twoCallVars, classifierVars, middlewareVars>>

\* a program that calls neither retry nor isRetryableError
NoRetry ==
    /\ options = <<>>
    /\ plan = [i \in 1..MaxAttemptsBound |-> Resolved(StrVal(S_success))]
    /\ opts = DEFAULT_OPTIONS
    /\ pc = "idle"
    /\ attempt = 0
    /\ lastError = UndefinedVal
    /\ nextId = 10
    /\ fnLog = <<>>
    /\ onRetryLog = <<>>
    /\ delays = <<>>
    /\ outcome = Pending
    /\ events = <<>>
    /\ active = 1
    /\ parked = <<>>
    /\ input = UndefinedVal
    /\ result = <<>>

\* the program of all configurations: a Logger constructed with any
\* argument, short buffers
InitLogger == NoRetry /\ NoMiddleware /\ \E arg \in PartialConfigs : Constructed(arg)

\* a log call that starts a fetch waits for a free slot
MayLog == accepted < MaxShort /\ (Fetches(config) => pending < MaxPending)

NextLogger ==
    \/ MayLog /\ debug
    \/ MayLog /\ info
    \/ MayLog /\ warn
    \/ MayLog /\ error
    \/ \E ok \in BOOLEAN : fetchSettles(ok)
    \/ \E arg \in Counts : getRecentLogs(arg)
    \/ clearBuffer
    \/ \E arg \in UpdateArgs : updateConfig(arg)

SpecLogger == InitLogger /\ [][NextLogger]_vars

\* the program of the long buffer: the Logger of the tests,
\* new Logger({ enableConsole: false }), with any minLevel
LongBufferConstructorArgs ==
    { c \in PartialConfigs :
        /\ DOMAIN c \subseteq {"minLevel", "enableConsole"}
        /\ "enableConsole" \in DOMAIN c
        /\ ~c.enableConsole }

LongBufferUpdateArgs == { c \in PartialConfigs : DOMAIN c \subseteq {"minLevel"} }

InitLongBuffer == NoRetry /\ NoMiddleware /\ \E arg \in LongBufferConstructorArgs : Constructed(arg)

MayLogLong(level) ==
    /\ accepted < MaxAccepted
    /\ IF accepted < MaxMixed THEN TRUE ELSE level = buffer[Len(buffer)].level

NextLongBuffer ==
    \/ MayLogLong(DEBUG) /\ debug
    \/ MayLogLong(INFO) /\ info
    \/ MayLogLong(WARN) /\ warn
    \/ MayLogLong(ERROR) /\ error
    \/ \E arg \in Counts : getRecentLogs(arg)
    \/ clearBuffer
    \/ \E arg \in LongBufferUpdateArgs : updateConfig(arg)

SpecLongBuffer == InitLongBuffer /\ [][NextLongBuffer]_vars

-----------------------------------------------------------------------------
(* Properties of Logger *)

\* the last n elements of the sequence q, all of q when it has fewer
LastN(q, n) == SubSeq(q, Len(q) - min(n, Len(q)) + 1, Len(q))

\* C14: the buffer holds at most 100 entries, and they are the most recently
\* accepted entries since the buffer was last cleared, in the order they were
\* accepted: the messages of the entries are the last min(accepted, 100) of
\* the numbers 1..accepted, ascending, and an accepted call's entry is the
\* last one; when the 101st entry is accepted the oldest one is evicted.
C14_BufferIsMostRecent ==
    exists =>
        /\ Len(buffer) <= MAX_BUFFER_SIZE
        /\ Len(buffer) = min(accepted, MAX_BUFFER_SIZE)
        /\ \A i \in 1..Len(buffer) :
              buffer[i].message = accepted - Len(buffer) + i
        /\ (lastCall.op = "log" /\ buffer # bufferBefore) =>
              /\ buffer[Len(buffer)] = [level |-> lastCall.arg, message |-> accepted]
              /\ buffer = LastN(Append(bufferBefore, buffer[Len(buffer)]), MAX_BUFFER_SIZE)
        /\ lastCall.op = "clearBuffer" => buffer = <<>>
        /\ lastCall.op \in {"updateConfig", "getRecentLogs"} => buffer = bufferBefore

\* the 101st entry since the buffer was last cleared was just accepted, on a
\* full buffer, and the entry numbered 1 is gone
C14_Witness ==
    /\ exists
    /\ lastCall.op = "log"
    /\ accepted = MAX_BUFFER_SIZE + 1
    /\ Len(bufferBefore) = MAX_BUFFER_SIZE
    /\ bufferBefore[1].message = 1
    /\ buffer[1].message = 2
    /\ buffer[MAX_BUFFER_SIZE].message = MAX_BUFFER_SIZE + 1

\* what the claim C15 says getRecentLogs(count) returns
RecentLogsAsClaimed ==
    LET count == CountOf(lastCall.arg)
    IN  /\ lastCall.returned = LastN(buffer, count)
        /\ Len(lastCall.returned) <= count
        /\ lastCall.arg = <<>> => count = 10
        /\ buffer = bufferBefore
        /\ lastCall.threw = <<>>

\* C15: for every count >= 0, getRecentLogs(count) returns the last
\* min(count, buffer length) entries of the buffer, oldest first, never more
\* than count entries; without argument count is 10; the buffer is unchanged.
C15_RecentLogs == lastCall.op = "getRecentLogs" => RecentLogsAsClaimed

\* the same for every count >= 1
C15_WhenCountPositive ==
    (lastCall.op = "getRecentLogs" /\ CountOf(lastCall.arg) >= 1) => RecentLogsAsClaimed

\* getRecentLogs(0) returned every entry of a buffer that is not empty
C15_ZeroReturnsAll ==
    /\ lastCall.op = "getRecentLogs"
    /\ lastCall.arg = <<0>>
    /\ buffer # <<>>
    /\ lastCall.returned = buffer

\* C16: a log call at level L adds an entry to the buffer if and only if
\* L >= the minLevel in force when it is called, which only the constructor
\* and updateConfig set; a call below minLevel leaves the buffer unchanged,
\* writes nothing to the console and sends nothing to the remote endpoint.
C16_LevelFilter ==
    /\ lastCall.op = "log" =>
          /\ config = configBefore
          /\ IF lastCall.arg >= configBefore.minLevel
             THEN /\ Len(buffer) = Len(bufferBefore) + 1
                  /\ SubSeq(buffer, 1, Len(bufferBefore)) = bufferBefore
                  /\ buffer[Len(buffer)].level = lastCall.arg
             ELSE /\ buffer = bufferBefore
                  /\ lastCall.console = <<>>
                  /\ ~lastCall.fetched
    /\ (exists /\ lastCall.op \notin {"constructor", "updateConfig"}) =>
          config.minLevel = configBefore.minLevel
    /\ lastCall.op = "constructor" =>
          config.minLevel =
              IF "minLevel" \in DOMAIN lastCall.arg THEN lastCall.arg.minLevel ELSE INFO
    /\ lastCall.op = "updateConfig" =>
          config.minLevel =
              IF "minLevel" \in DOMAIN lastCall.arg THEN lastCall.arg.minLevel
              ELSE configBefore.minLevel

\* a call below a minLevel that is not the default was dropped by a Logger
\* that writes to the console and sends to the remote endpoint, and that
\* accepted an entry before
C16_Witness ==
    /\ lastCall.op = "log"
    /\ lastCall.arg < config.minLevel
    /\ config.minLevel # INFO
    /\ config.enableConsole
    /\ Fetches(config)
    /\ buffer # <<>>

\* the value of the field f in the configuration merged from before and arg
MergedField(before, arg, f) == IF f \in DOMAIN arg THEN arg[f] ELSE before[f]

\* the configuration merged from before and arg has enableRemote true and no
\* remoteEndpoint
MergedLacksEndpoint(before, arg) ==
    /\ MergedField(before, arg, "enableRemote")
    /\ \/ "remoteEndpoint" \notin (DOMAIN arg) \cup (DOMAIN before)
       \/ MergedField(before, arg, "remoteEndpoint") = <<>>

\* the call threw the Error 'remoteEndpoint is required when enableRemote is true'
ThrewEndpointRequired ==
    /\ Len(lastCall.threw) = 1
    /\ instanceofError(lastCall.threw[1])
    /\ lastCall.threw[1].msg = S_remoteEndpointRequired

\* C17: the constructor and updateConfig throw the Error 'remoteEndpoint is
\* required when enableRemote is true' when the merged configuration has
\* enableRemote true and no remoteEndpoint, and succeed otherwise.
C17_Validation ==
    /\ lastCall.op = "constructor" =>
          /\ IF MergedLacksEndpoint(DefaultConfig, lastCall.arg)
             THEN ThrewEndpointRequired
             ELSE lastCall.threw = <<>>
          /\ exists <=> lastCall.threw = <<>>
    /\ lastCall.op = "updateConfig" =>
          IF MergedLacksEndpoint(configBefore, lastCall.arg)
          THEN ThrewEndpointRequired
          ELSE lastCall.threw = <<>>

\* updateConfig({ enableRemote: true }) threw on a Logger without endpoint
C17_Witness ==
    /\ lastCall.op = "updateConfig"
    /\ DOMAIN lastCall.arg = {"enableRemote"}
    /\ lastCall.arg.enableRemote
    /\ ~configBefore.enableRemote
    /\ ThrewEndpointRequired

\* C19: in every state of a constructed Logger the configuration has an
\* endpoint when enableRemote is true, and an updateConfig that throws
\* leaves the configuration as it was before the call.
C19_ConfigStaysValid ==
    exists =>
        /\ config.enableRemote => HasEndpoint(config)
        /\ (lastCall.op = "updateConfig" /\ lastCall.threw # <<>>) =>
              config = configBefore

\* an entry was accepted by a Logger whose configuration has enableRemote
\* true and no endpoint: nothing was sent
C19_SilentlyNotSent ==
    /\ exists
    /\ lastCall.op = "log"
    /\ buffer # bufferBefore
    /\ config.enableRemote
    /\ ~HasEndpoint(config)
    /\ ~lastCall.fetched

-----------------------------------------------------------------------------
(* Express middlewares *)

\* res.status(status).json({ error: message })
Response(status, message) == [status |-> status, body |-> [error |-> message]]

\* a program that calls neither retry nor isRetryableError and constructs no
\* Logger
OnlyMiddleware == NoRetry /\ NoLogger

-----------------------------------------------------------------------------
(* rateLimit *)

S_TooManyRequests ==
    <<"T", "o", "o", " ", "m", "a", "n", "y", " ", "r", "e", "q", "u", "e",
      "s", "t", "s">>

\* the default of the parameter maxRequests
DefaultMaxRequests == 100

\* stored counts at which the model stops sending requests of an ip
MaxCount == 3

\* the values of req.ip
Ips == {"10.0.0.1", "10.0.0.2"}

\* the middlewares made by rateLimit in the program
Limiters == {1, 2}

\* the arguments of rateLimit
LimiterArgs == { <<>>, <<0 - 1>>, <<0>>, <<1>>, <<2>> }

\* the parameter maxRequests, given the argument
MaxRequestsOf(arg) == IF arg = <<>> THEN DefaultMaxRequests ELSE arg[1]

\* Map.prototype.get(key) || 0
GetOrZero(map, key) == IF key \in DOMAIN map THEN map[key] ELSE 0

\* Map.prototype.set(key, value)
MapSet(map, key, value) ==
    [k \in (DOMAIN map) \cup {key} |-> IF k = key THEN value ELSE map[k]]

Limited_above(count, maxRequests) == count > maxRequests

\* the test of the limiter: count >= maxRequests
Limited(count, maxRequests) == count >= maxRequests

\* the middleware made by rateLimit(limiters[l]) is invoked with a request of ip
rateLimit(l, ip) ==
    LET count == GetOrZero(requestCounts, ip)
    IN  /\ handler' = [name |-> "rateLimit", limiter |-> l,
                       countsBefore |-> requestCounts,
                       rejectedBefore |-> rejected[l][ip]]
        /\ req' = [ip |-> ip]
        /\ thrown' = <<>>
        /\ IF Limited(count, MaxRequestsOf(limiters[l]))
           THEN /\ res' = <<Response(429, S_TooManyRequests)>>
                /\ nextCalls' = 0
                /\ rejected' = [rejected EXCEPT ![l][ip] = TRUE]
                /\ UNCHANGED <<requestCounts, passed>>
           ELSE /\ requestCounts' = MapSet(requestCounts, ip, count + 1)
                /\ res' = <<>>
                /\ nextCalls' = 1
                /\ passed' = [passed EXCEPT ![l][ip] = @ + 1]
                /\ UNCHANGED rejected
        /\ UNCHANGED <<limiters, schema, roles>>
        /\ UNCHANGED <<retryVars, twoCallVars, classifierVars, loggerVars>>

\* two calls of rateLimit were made; the Map is the module's, empty
InitRateLimit ==
    /\ OnlyMiddleware
    /\ limiters \in [Limiters -> LimiterArgs]
    /\ requestCounts = <<>>
    /\ passed = [l \in Limiters |-> [ip \in Ips |-> 0]]
    /\ rejected = [l \in Limiters |-> [ip \in Ips |-> FALSE]]
    /\ schema = <<>>
    /\ roles = <<>>
    /\ NotInvoked

NextRateLimit ==
    \E l \in Limiters, ip \in Ips :
        GetOrZero(requestCounts, ip) < MaxCount /\ rateLimit(l, ip)

SpecRateLimit == InitRateLimit /\ [][NextRateLimit]_vars

-----------------------------------------------------------------------------
(* Properties of rateLimit *)

\* the count stored for ip, 0 when none is
Stored(map, ip) == IF ip \in DOMAIN map THEN map[ip] ELSE 0

\* C21: a request is passed on (next called once, the count of its ip one
\* more) if and only if the stored count is below maxRequests; otherwise one
\* 429 is sent, next is not called and the counts are unchanged. No count
\* ever decreases, a limiter passes at most maxRequests requests of an ip,
\* and once it rejected an ip it rejects every later request of that ip.
C21_RateLimit ==
    /\ (handler # <<>> /\ handler.name = "rateLimit") =>
          LET before == handler.countsBefore
              maxRequests == MaxRequestsOf(limiters[handler.limiter])
          IN  /\ thrown = <<>>
              /\ IF Stored(before, req.ip) < maxRequests
                 THEN /\ nextCalls = 1
                      /\ res = <<>>
                      /\ Stored(requestCounts, req.ip) = Stored(before, req.ip) + 1
                 ELSE /\ nextCalls = 0
                      /\ Len(res) = 1
                      /\ res[1].status = 429
                      /\ requestCounts = before
              /\ \A ip \in Ips :
                    /\ Stored(requestCounts, ip) >= Stored(before, ip)
                    /\ ip # req.ip => Stored(requestCounts, ip) = Stored(before, ip)
              /\ handler.rejectedBefore => (nextCalls = 0 /\ res # <<>>)
    /\ limiters # <<>> =>
          \A l \in Limiters, ip \in Ips :
              /\ passed[l][ip] <= max(MaxRequestsOf(limiters[l]), 0)
              /\ rejected[l][ip] =>
                    Stored(requestCounts, ip) >= MaxRequestsOf(limiters[l])

\* a limiter rejects again an ip it rejected before, having itself passed
\* fewer than maxRequests requests of it: the other limiter passed the rest
C21_Witness ==
    /\ handler # <<>>
    /\ handler.name = "rateLimit"
    /\ handler.rejectedBefore
    /\ Len(res) = 1
    /\ res[1] = Response(429, S_TooManyRequests)
    /\ passed[handler.limiter][req.ip] = 1
    /\ MaxRequestsOf(limiters[handler.limiter]) = 2
    /\ passed[3 - handler.limiter][req.ip] = 1
    /\ Stored(requestCounts, req.ip) = 2

-----------------------------------------------------------------------------
(* validateRequest *)

S_isRequired ==
    <<" ", "i", "s", " ", "r", "e", "q", "u", "i", "r", "e", "d">>
S_mustBeValidEmail ==
    <<" ", "m", "u", "s", "t", " ", "b", "e", " ", "a", " ", "v", "a", "l",
      "i", "d", " ", "e", "m", "a", "i", "l">>
S_mustBeAtLeast ==
    <<" ", "m", "u", "s", "t", " ", "b", "e", " ", "a", "t", " ", "l", "e",
      "a", "s", "t", " ">>
S_characters ==
    <<" ", "c", "h", "a", "r", "a", "c", "t", "e", "r", "s">>
S_cannotReadLength ==
    <<"C", "a", "n", "n", "o", "t", " ", "r", "e", "a", "d", " ", "p", "r",
      "o", "p", "e", "r", "t", "i", "e", "s", " ", "o", "f", " ", "u", "n",
      "d", "e", "f", "i", "n", "e", "d", " ", "(", "r", "e", "a", "d", "i",
      "n", "g", " ", "'", "l", "e", "n", "g", "t", "h", "'", ")">>

\* a character of the class [^\s@]
NotSpaceNotAt(c) == c \notin {" ", "\t", "\n", "\r", "@"}

\* the string matches [^\s@]+
SomeNotSpaceNotAt(str) == str # <<>> /\ \A i \in 1..Len(str) : NotSpaceNotAt(str[i])

\* /^[^\s@]+@[^\s@]+\.[^\s@]+$/.test(str)
validateEmail(str) ==
    \E i \in 1..Len(str), j \in 1..Len(str) :
        /\ i < j
        /\ SomeNotSpaceNotAt(SubSeq(str, 1, i - 1))
        /\ str[i] = "@"
        /\ SomeNotSpaceNotAt(SubSeq(str, i + 1, j - 1))
        /\ str[j] = "."
        /\ SomeNotSpaceNotAt(SubSeq(str, j + 1, Len(str)))

\* the decimal digit d as a string
Digit(d) ==
    CASE d = 0 -> "0" [] d = 1 -> "1" [] d = 2 -> "2" [] d = 3 -> "3" [] d = 4 -> "4"
      [] d = 5 -> "5" [] d = 6 -> "6" [] d = 7 -> "7" [] d = 8 -> "8" [] d = 9 -> "9"

RECURSIVE NumberToString(_)
\* `${n}` for a natural number n
NumberToString(n) ==
    IF n < 10 THEN <<Digit(n)>> ELSE Append(NumberToString(n \div 10), Digit(n % 10))

\* the value is truthy: not undefined, not null, not the empty string
Truthy(value) == value.kind = "string" /\ value.msg # <<>>

\* data[field]
Property(data, field) == IF field \in DOMAIN data THEN data[field] ELSE UndefinedVal

\* new TypeError, thrown by value.length when value is undefined
LengthOfUndefined == ErrorObj(40, S_cannotReadLength)

\* how an invocation ends
Ended(responses, calls, err) == [res |-> responses, nextCalls |-> calls, thrown |-> err]

\* value.length < rules.minLength, for a string
TooShort(value, rules) == Len(value.msg) < rules.minLength

RECURSIVE ValidateFrom(_, _, _)
\* the loop over Object.entries(schema), from the entry numbered i
ValidateFrom(entries, i, data) ==
    IF i > Len(entries) THEN Ended(<<>>, 1, <<>>)
    ELSE LET field == entries[i].field
             rules == entries[i].rules
             value == Property(data, field)
         IN  IF rules.required /\ ~Truthy(value)
             THEN Ended(<<Response(400, field \o S_isRequired)>>, 0, <<>>)
             ELSE IF rules.type = "email" /\ Truthy(value) /\ ~validateEmail(value.msg)
             THEN Ended(<<Response(400, field \o S_mustBeValidEmail)>>, 0, <<>>)
             ELSE IF rules.minLength # 0
             THEN IF value.kind # "string"
                  THEN Ended(<<>>, 0, <<LengthOfUndefined>>)
                  ELSE IF TooShort(value, rules)
                  THEN Ended(<<Response(400, field \o S_mustBeAtLeast
                                  \o NumberToString(rules.minLength) \o S_characters)>>,
                             0, <<>>)
                  ELSE ValidateFrom(entries, i + 1, data)
             ELSE ValidateFrom(entries, i + 1, data)

\* the rules of a field; minLength 0 is a rule without minLength (both falsy)
Rules == [required : BOOLEAN, type : {"string", "email"}, minLength : {0, 6}]

\* the keys of schema: 'email', 'name'
SchemaFields == { <<"e", "m", "a", "i", "l">>, <<"n", "a", "m", "e">> }

\* Object.entries(schema): one or two fields, in the order of the object
Schemas ==
    { <<[field |-> f, rules |-> r]>> : f \in SchemaFields, r \in Rules }
        \cup { entries \in { <<[field |-> f, rules |-> r], [field |-> g, rules |-> q]>> :
                                f \in SchemaFields, g \in SchemaFields,
                                r \in Rules, q \in Rules } :
                 entries[1].field # entries[2].field }

\* values of the fields of req.body: '', 'ab', 'abcdef', 'a@b.c', 'ab@c.de',
\* 'a@b.c d'
BodyStrings ==
    { <<>>,
      <<"a", "b">>,
      <<"a", "b", "c", "d", "e", "f">>,
      <<"a", "@", "b", ".", "c">>,
      <<"a", "b", "@", "c", ".", "d", "e">>,
      <<"a", "@", "b", ".", "c", " ", "d">> }

\* req.body: an object with some of the fields, each a string
Bodies ==
    UNION { [D -> { StrVal(v) : v \in BodyStrings }] : D \in SUBSET SchemaFields }

\* the middleware made by validateRequest(schema) is invoked with the body data
validateRequest(data) ==
    LET end == ValidateFrom(schema, 1, data)
    IN  /\ handler' = [name |-> "validateRequest"]
        /\ req' = [body |-> data]
        /\ res' = end.res
        /\ nextCalls' = end.nextCalls
        /\ thrown' = end.thrown
        /\ UNCHANGED <<limiters, requestCounts, passed, rejected, schema, roles>>
        /\ UNCHANGED <<retryVars, twoCallVars, classifierVars, loggerVars>>

\* validateRequest(schema) was called
InitValidate ==
    /\ OnlyMiddleware
    /\ schema \in Schemas
    /\ limiters = <<>>
    /\ requestCounts = <<>>
    /\ passed = <<>>
    /\ rejected = <<>>
    /\ roles = <<>>
    /\ NotInvoked

NextValidate == \E data \in Bodies : validateRequest(data)

SpecValidate == InitValidate /\ [][NextValidate]_vars

-----------------------------------------------------------------------------
(* Properties of validateRequest *)

\* the string is an email address: no white space, one "@", not first, and
\* after it a "." that is neither next to the "@" nor last
IsEmail(str) ==
    /\ \A i \in 1..Len(str) : str[i] \notin {" ", "\t", "\n", "\r"}
    /\ Cardinality({ i \in 1..Len(str) : str[i] = "@" }) = 1
    /\ \E i \in 2..Len(str) :
          /\ str[i] = "@"
          /\ \E j \in (i + 2)..(Len(str) - 1) : str[j] = "."

\* the field is absent from the body, or empty
Missing(data, field) == field \notin DOMAIN data \/ data[field].msg = <<>>

\* the rule the entry's field violates in the body data, "" when none: the
\* rules are required, email and minLength, in this order
Violation(entry, data) ==
    IF entry.rules.required /\ Missing(data, entry.field) THEN "required"
    ELSE IF /\ entry.rules.type = "email"
            /\ ~Missing(data, entry.field)
            /\ ~IsEmail(data[entry.field].msg) THEN "email"
    ELSE IF /\ entry.rules.minLength > 0
            /\ entry.field \in DOMAIN data
            /\ Len(data[entry.field].msg) < entry.rules.minLength THEN "minLength"
    ELSE ""

\* the message of the 400 response for a rule the field violates
ViolationMessage(entry, rule) ==
    CASE rule = "required" -> entry.field \o S_isRequired
      [] rule = "email" -> entry.field \o S_mustBeValidEmail
      [] rule = "minLength" ->
            entry.field \o S_mustBeAtLeast \o <<"6">> \o S_characters

\* the invocation ended as the claim C22 says it does
EndsAsClaimed ==
    LET violating == { i \in 1..Len(schema) : Violation(schema[i], req.body) # "" }
    IN  /\ thrown = <<>>
        /\ IF violating = {}
           THEN nextCalls = 1 /\ res = <<>>
           ELSE LET first == CHOOSE i \in violating : \A k \in violating : i <= k
                IN  /\ nextCalls = 0
                    /\ res = <<Response(400,
                                  ViolationMessage(schema[first],
                                                   Violation(schema[first], req.body)))>>

\* C22: every invocation of the middleware ends either with one 400 response
\* naming the first schema field that violates its required, email or
\* minLength rule, or with one call of next(), the latter only when every
\* field satisfies its rules; an absent optional field makes it fail in no
\* other way.
C22_ValidateRequest ==
    (handler # <<>> /\ handler.name = "validateRequest") => EndsAsClaimed

\* the same, for the bodies that have every field with a minLength rule
C22_WhenFieldsWithMinLengthPresent ==
    ( /\ handler # <<>>
      /\ handler.name = "validateRequest"
      /\ \A i \in 1..Len(schema) :
            schema[i].rules.minLength > 0 => schema[i].field \in DOMAIN req.body )
        => EndsAsClaimed

\* an optional field with a minLength rule is absent and the middleware threw
C22_AbsentOptionalThrows ==
    /\ handler # <<>>
    /\ handler.name = "validateRequest"
    /\ thrown = <<LengthOfUndefined>>
    /\ res = <<>>
    /\ nextCalls = 0
    /\ \E i \in 1..Len(schema) :
          /\ ~schema[i].rules.required
          /\ schema[i].rules.minLength > 0
          /\ schema[i].field \notin DOMAIN req.body

-----------------------------------------------------------------------------
(* authorize *)

S_NotAuthenticated ==
    <<"N", "o", "t", " ", "a", "u", "t", "h", "e", "n", "t", "i", "c", "a",
      "t", "e", "d">>
S_InsufficientPermissions ==
    <<"I", "n", "s", "u", "f", "f", "i", "c", "i", "e", "n", "t", " ", "p",
      "e", "r", "m", "i", "s", "s", "i", "o", "n", "s">>

\* arguments of authorize, at most
MaxRoles == 2

\* the roles authorize is called with
GrantedRoles == {"admin", "editor", "user"}

\* the roles of the users
UserRoles == GrantedRoles \cup {"guest"}

\* authorize(...roles): the rest parameter, an array
RoleLists == UNION { [1..n -> GrantedRoles] : n \in 0..MaxRoles }

\* req.user: <<>> when the request has none, else <<user>>
Users ==
    { <<>> } \cup { <<[id |-> i, email |-> i \o "@example.com", role |-> r]>> :
                     i \in {"1", "2"}, r \in UserRoles }

\* Array.prototype.includes
arrayIncludes(array, x) == \E i \in 1..Len(array) : array[i] = x

Permitted_firstRole(rs, user) == rs # <<>> /\ rs[1] = user.role

\* roles.includes(req.user.role)
Permitted(rs, user) == arrayIncludes(rs, user.role)

\* the middleware made by authorize(...roles) is invoked with a request
authorize(request) ==
    /\ handler' = [name |-> "authorize", reqBefore |-> request]
    /\ req' = request
    /\ thrown' = <<>>
    /\ IF request.user = <<>>
       THEN /\ res' = <<Response(401, S_NotAuthenticated)>>
            /\ nextCalls' = 0
       ELSE IF ~Permitted(roles, request.user[1])
       THEN /\ res' = <<Response(403, S_InsufficientPermissions)>>
            /\ nextCalls' = 0
       ELSE /\ res' = <<>>
            /\ nextCalls' = 1
    /\ UNCHANGED <<limiters, requestCounts, passed, rejected, schema, roles>>
    /\ UNCHANGED <<retryVars, twoCallVars, classifierVars, loggerVars>>

\* authorize(...roles) was called
InitAuthorize ==
    /\ OnlyMiddleware
    /\ roles \in RoleLists
    /\ limiters = <<>>
    /\ requestCounts = <<>>
    /\ passed = <<>>
    /\ rejected = <<>>
    /\ schema = <<>>
    /\ NotInvoked

NextAuthorize == \E u \in Users : authorize([user |-> u])

SpecAuthorize == InitAuthorize /\ [][NextAuthorize]_vars

-----------------------------------------------------------------------------
(* Properties of authorize *)

\* the request carries a user whose role is one of roles
CarriesGrantedRole(request) ==
    /\ request.user # <<>>
    /\ request.user[1].role \in { roles[i] : i \in 1..Len(roles) }

\* C23: the middleware calls next() if and only if the request carries a
\* user whose role is one of roles; with no user it sends 401, with a user of
\* another role 403, and then does not call next(); it never both responds
\* and calls next(), and it leaves req.user as it was.
C23_Authorize ==
    (handler # <<>> /\ handler.name = "authorize") =>
        /\ thrown = <<>>
        /\ nextCalls \in {0, 1}
        /\ nextCalls = 1 <=> CarriesGrantedRole(handler.reqBefore)
        /\ handler.reqBefore.user = <<>> =>
              (Len(res) = 1 /\ res[1].status = 401)
        /\ (handler.reqBefore.user # <<>> /\ ~CarriesGrantedRole(handler.reqBefore)) =>
              (Len(res) = 1 /\ res[1].status = 403)
        /\ ~(res # <<>> /\ nextCalls > 0)
        /\ nextCalls = 0 => res # <<>>
        /\ req.user = handler.reqBefore.user

\* a user whose role is the second of two roles was passed on
C23_Witness ==
    /\ handler # <<>>
    /\ handler.name = "authorize"
    /\ Len(roles) = 2
    /\ roles[1] # roles[2]
    /\ req.user # <<>>
    /\ req.user[1].role = roles[2]
    /\ nextCalls = 1
    /\ res = <<>>

====
